---------------------------- MODULE Spec2Model ----------------------------
(***************************************************************************)
(* A model of the BNTX texture container codec of src/src/lib.rs.         *)
(*                                                                         *)
(* A file is a sequence of bytes (numbers 0..255).  BntxFile::write is    *)
(* modelled byte for byte, as the concatenation of the fields the code    *)
(* emits, in the code's order and byte order.  The derived BinRead        *)
(* parsers are modelled by operators that index the byte sequence, follow *)
(* the file pointers and return either a value or a failure.              *)
(*                                                                         *)
(* Offsets are 0-based, as in the source; sequences are 1-based.          *)
(***************************************************************************)
EXTENDS Integers, Sequences, FiniteSets, TLC

(***************************************************************************)
(* Bounds of the model.                                                    *)
(***************************************************************************)
\* longest ordinary string of a String Pool (2 is congruent to 2 modulo 4)
MaxStrLen == 2
\* most strings in a String Pool
MaxStrings == 2
\* most relocation sections of a decoded container
MaxSections == 1
\* largest width and height of a texture
MaxDim == 2
\* the scalar fields of a decoded container are Seed-derived; seeds 0..MaxSeed
MaxSeed == 1
\* length of the one long string whose pool no longer fits the layout gap
LongStrLen == 2918
\* pixel-format codes 0x0b06 - CodeSpan .. 0x0b06 + CodeSpan are enumerated
CodeSpan == 10

(***************************************************************************)
(* Layout constants of the writer, lib.rs:32-46, 103, 113, 343.            *)
(***************************************************************************)
BNTX_HEADER_SIZE == 32
NX_HEADER_SIZE == 40
HEADER_SIZE == BNTX_HEADER_SIZE + NX_HEADER_SIZE
MEM_POOL_SIZE == 336
DATA_PTR_SIZE == 8
START_OF_STR_SECTION == HEADER_SIZE + MEM_POOL_SIZE + DATA_PTR_SIZE
STR_HEADER_SIZE == 20
EMPTY_STR_SIZE == 4
FILENAME_STR_OFFSET == START_OF_STR_SECTION + STR_HEADER_SIZE + EMPTY_STR_SIZE
BRTD_SECTION_START == 4080
START_OF_TEXTURE_DATA == BRTD_SECTION_START + 16
SIZE_OF_RELOC_SECTION == 8 + (4 * 4)
SIZE_OF_RELOC_ENTRY == 4 + 2 + (1 * 2)
SIZE_OF_BRTI == 160

(***************************************************************************)
(* Bytes and integers.                                                     *)
(***************************************************************************)
\* The model's integers are below 2^31.  A field whose bytes denote a larger
\* number is read as Huge: it is larger than every offset and every value
\* the model writes, which is all the parsers ask of it.
Huge == (127 * 16777216) + 16777215

Pow256 == <<1, 256, 65536, 16777216>>

Min(a, b) == IF a < b THEN a ELSE b

Zeros(n) == [i \in 1..n |-> 0]

Reverse(s) == [i \in 1..Len(s) |-> s[Len(s) + 1 - i]]

RECURSIVE Concat(_)
Concat(ss) == IF ss = <<>> THEN <<>> ELSE Head(ss) \o Concat(Tail(ss))

RECURSIVE SumSeq(_)
SumSeq(s) == IF s = <<>> THEN 0 ELSE Head(s) + SumSeq(Tail(s))

\* an integer of n bytes as binwrite emits it under the given byte order
ToBytes(x, n, little) ==
    LET le == [i \in 1..n |-> IF i <= 4 THEN (x \div Pow256[i]) % 256 ELSE 0]
    IN  IF little THEN le ELSE Reverse(le)

\* the integer that n bytes denote under the given byte order
FromBytes(bs, little) ==
    LET le == IF little THEN bs ELSE Reverse(bs)
        n  == Len(le)
    IN  IF (\E i \in 5..n : le[i] # 0) \/ (n >= 4 /\ le[4] >= 128)
        THEN Huge
        ELSE SumSeq([i \in 1..Min(n, 4) |-> le[i] * Pow256[i]])

\* n bytes are available at offset pos
Avail(b, pos, n) == pos >= 0 /\ n >= 0 /\ pos <= Len(b) - n

Slice(b, pos, n) == SubSeq(b, pos + 1, pos + n)

\* the unsigned integer of n bytes at offset pos (the caller checks Avail)
UAt(b, pos, n, little) == FromBytes(Slice(b, pos, n), little)

\* lib.rs:208-210
align(x, n) == ((x + n - 1) \div n) * n

\* ASCII
Magic_BNTX == <<66, 78, 84, 88>>
Magic_NX == <<78, 88, 32, 32>>
Magic_STR == <<95, 83, 84, 82>>
Magic_RLT == <<95, 82, 76, 84>>
Magic_DIC == <<95, 68, 73, 67>>
Magic_BRTI == <<66, 82, 84, 73>>
Magic_BRTD == <<66, 82, 84, 68>>

\* lib.rs:280
DICT_SECTION ==
    <<95, 68, 73, 67, 1, 0, 0, 0, 255, 255, 255, 255, 1, 0, 0, 0,
      180, 1, 0, 0, 0, 0, 0, 0, 1, 0, 0, 0, 0, 0, 1, 0,
      184, 1, 0, 0, 0, 0, 0, 0>>

Fail == [ok |-> FALSE]


(***************************************************************************)
(* Writers.  Every writer returns the chunks it emits, in order; a chunk   *)
(* is a tag and its bytes.  The bytes of a file are the concatenation of   *)
(* its chunks, and a chunk's offset is the number of bytes emitted before  *)
(* it, so the tags record where each part of the file actually landed.     *)
(***************************************************************************)
Chunk(t, bs) == [tag |-> t, bytes |-> bs]

Flatten(chunks) == Concat([i \in 1..Len(chunks) |-> chunks[i].bytes])

\* lib.rs:223-230, From<String> for BntxStr
BntxStrFrom(chars) == [len |-> Len(chars) % 65536, chars |-> chars]

\* a get_size that leaves the terminating NUL out
BntxStrGetSizeNoNul(s) == align(2 + Len(s.chars), 4)

\* lib.rs:212-221
BntxStrGetSize(s) == align(2 + Len(s.chars) + 1, 4)

\* lib.rs:198-206, derived BinWrite: the length, the characters with a
\* terminating NUL (cstr), then padding to a multiple of 4 of the bytes the
\* record has emitted
WriteBntxStr(s, little) ==
    LET body == ToBytes(s.len, 2, little) \o s.chars \o <<0>>
    IN  body \o Zeros(align(Len(body), 4) - Len(body))

\* lib.rs:188-196
StrSectionGetSize(str) ==
    (5 * 4) + EMPTY_STR_SIZE
        + SumSeq([i \in 1..Len(str.strings) |-> BntxStrGetSize(str.strings[i])])

\* lib.rs:174-186
WriteStrSection(str, little) ==
    << Chunk("_STR", Magic_STR \o ToBytes(str.unk, 4, little)
                        \o ToBytes(str.unk2, 4, little)
                        \o ToBytes(str.unk3, 4, little)
                        \o ToBytes(Len(str.strings), 4, little)),
       Chunk("empty", WriteBntxStr(BntxStrFrom(<<>>), little)),
       Chunk("strings", Concat([i \in 1..Len(str.strings) |->
                                   WriteBntxStr(str.strings[i], little)])) >>

\* lib.rs:282-286
DictGetSize == Len(DICT_SECTION)

\* lib.rs:288-292
WriteDictSection == << Chunk("_DIC", DICT_SECTION) >>

\* lib.rs:134-142
RelocGetSize(rlt) ==
    4 + 4 + 4 + 4
      + (Len(rlt.sections) * SIZE_OF_RELOC_SECTION)
      + (Len(rlt.entries) * SIZE_OF_RELOC_ENTRY)

\* lib.rs:94-101, derived BinWrite
WriteRelocationSection(x, little) ==
    ToBytes(x.pointer, 8, little) \o ToBytes(x.position, 4, little)
        \o ToBytes(x.size, 4, little) \o ToBytes(x.index, 4, little)
        \o ToBytes(x.count, 4, little)

\* lib.rs:105-111, derived BinWrite
WriteRelocationEntry(x, little) ==
    ToBytes(x.position, 4, little) \o ToBytes(x.struct_count, 2, little)
        \o ToBytes(x.offset_count, 1, little) \o ToBytes(x.padding_count, 1, little)

\* lib.rs:144-153
WriteRelocationTable(rlt, parent, little) ==
    << Chunk("_RLT",
          Magic_RLT
          \o ToBytes(START_OF_TEXTURE_DATA + Len(parent.nx_header.info_ptr.texture), 4, little)
          \o ToBytes(Len(rlt.sections), 4, little)
          \o ToBytes(0, 4, little)
          \o Concat([i \in 1..Len(rlt.sections) |->
                        WriteRelocationSection(rlt.sections[i], little)])
          \o Concat([i \in 1..Len(rlt.entries) |->
                        WriteRelocationEntry(rlt.entries[i], little)])) >>

\* lib.rs:62-65: the two marker bytes, not subject to the byte order option
WriteByteOrder(bom) == IF bom = "LittleEndian" THEN <<255, 254>> ELSE <<254, 255>>

\* lib.rs:48-74
WriteBntxHeader(header, parent, little) ==
    LET start_of_reloc_section ==
            START_OF_TEXTURE_DATA + Len(parent.nx_header.info_ptr.texture)
    IN  << Chunk("BNTX",
              Magic_BNTX
              \o ToBytes(0, 4, little)
              \o ToBytes(header.version[1], 2, little)
              \o ToBytes(header.version[2], 2, little)
              \o WriteByteOrder(header.bom)
              \o ToBytes(header.inner.revision, 2, little)
              \o ToBytes(FILENAME_STR_OFFSET + 2, 4, little)
              \o ToBytes(0, 2, little)
              \o ToBytes(START_OF_STR_SECTION % 65536, 2, little)
              \o ToBytes(start_of_reloc_section, 4, little)
              \o ToBytes(start_of_reloc_section
                           + RelocGetSize(header.inner.reloc_table), 4, little)) >>

\* lib.rs:256-272
WriteNxHeader(nx, parent, little) ==
    << Chunk("NX",
          Magic_NX
          \o ToBytes(1, 4, little)
          \o ToBytes(HEADER_SIZE + MEM_POOL_SIZE, 8, little)
          \o ToBytes(BRTD_SECTION_START, 8, little)
          \o ToBytes(START_OF_STR_SECTION
                       + StrSectionGetSize(parent.header.inner.str_section), 8, little)
          \o ToBytes(nx.dict_size, 8, little)) >>

\* a writer that emits the code of the named variant for every variant
WriteSurfaceFormatKnownOnly(format, little) == ToBytes(2822, 4, little)

\* lib.rs:302-309
WriteSurfaceFormat(format, little) ==
    ToBytes(IF format.tag = "R8G8B8A8_SRGB" THEN 2822 ELSE format.code, 4, little)

\* lib.rs:345-398
WriteBrtiSection(t, parent, little) ==
    LET end_of_dict == START_OF_STR_SECTION
                         + StrSectionGetSize(parent.header.inner.str_section)
                         + DictGetSize
    IN  << Chunk("BRTI",
              Magic_BRTI
              \o ToBytes(t.size, 4, little)
              \o ToBytes(t.size2, 8, little)
              \o ToBytes(t.flags, 1, little)
              \o ToBytes(t.dim, 1, little)
              \o ToBytes(t.tile_mode, 2, little)
              \o ToBytes(t.swizzle, 2, little)
              \o ToBytes(t.mips_count, 2, little)
              \o ToBytes(t.num_multi_sample, 4, little)
              \o WriteSurfaceFormat(t.format, little)
              \o ToBytes(t.unk2, 4, little)
              \o ToBytes(t.width, 4, little)
              \o ToBytes(t.height, 4, little)
              \o ToBytes(t.depth, 4, little)
              \o ToBytes(t.array_len, 4, little)
              \o ToBytes(t.size_range, 4, little)
              \o Concat([i \in 1..6 |-> ToBytes(t.unk4[i], 4, little)])
              \o ToBytes(t.image_size, 4, little)
              \o ToBytes(t.align, 4, little)
              \o ToBytes(t.comp_sel, 4, little)
              \o ToBytes(t.ty, 4, little)
              \o ToBytes(FILENAME_STR_OFFSET, 8, little)
              \o ToBytes(BNTX_HEADER_SIZE, 8, little)
              \o ToBytes(end_of_dict + SIZE_OF_BRTI + 512, 8, little)
              \o ToBytes(0, 8, little)
              \o ToBytes(end_of_dict + SIZE_OF_BRTI, 8, little)
              \o ToBytes(end_of_dict + SIZE_OF_BRTI + 256, 8, little)
              \o ToBytes(0, 8, little)
              \o ToBytes(0, 8, little)) >>

\* lib.rs:462: the byte order option of every field BntxFile::write emits
\* (binwrite::Endian::Little, whatever the container's bom)
WriteOptionsLittle(f) == TRUE

\* lib.rs:488-495 (a usize subtraction: a negative result does not exist)
PaddingSize(f) ==
    BRTD_SECTION_START
      - (START_OF_STR_SECTION
           + StrSectionGetSize(f.header.inner.str_section)
           + DictGetSize
           + SIZE_OF_BRTI
           + 512
           + DATA_PTR_SIZE)

\* lib.rs:463-486: what write has emitted when it computes padding_size
WriteBeforePadding(f) ==
    LET little == WriteOptionsLittle(f)
    IN  WriteBntxHeader(f.header, f, little)
        \o WriteNxHeader(f.nx_header, f, little)
        \o << Chunk("mem_pool", Zeros(336)),
              Chunk("info_ptr_slot",
                    ToBytes(START_OF_STR_SECTION
                              + StrSectionGetSize(f.header.inner.str_section)
                              + DictGetSize, 8, little)) >>
        \o WriteStrSection(f.header.inner.str_section, little)
        \o WriteDictSection
        \o WriteBrtiSection(f.nx_header.info_ptr, f, little)
        \o << Chunk("brti_tail", Zeros(256) \o Zeros(256)),
              Chunk("data_ptr_slot", ToBytes(4096, 8, little)) >>

\* lib.rs:497-509: the rest of write, reached when padding_size exists
WriteAfterPadding(f) ==
    LET little == WriteOptionsLittle(f)
    IN  << Chunk("padding", Zeros(PaddingSize(f))),
           Chunk("BRTD", Magic_BRTD
                           \o ToBytes(0, 4, little)
                           \o ToBytes(Len(f.nx_header.info_ptr.texture) + 16, 8, little)),
           Chunk("texture", f.nx_header.info_ptr.texture) >>
        \o WriteRelocationTable(f.header.inner.reloc_table, f, little)


(***************************************************************************)
(* Readers: the derived BinRead parsers.  A reader returns Fail or a       *)
(* record with ok = TRUE and the value read.  A file pointer is followed   *)
(* by indexing the byte sequence at the offset it holds.                   *)
(***************************************************************************)
\* lib.rs:203, String::from_utf8_lossy: ASCII bytes are kept; a byte that is
\* not ASCII and starts no valid sequence becomes U+FFFD (EF BF BD).  The
\* strings of the model are ASCII.
FromUtf8Lossy(bs) ==
    Concat([i \in 1..Len(bs) |-> IF bs[i] < 128 THEN <<bs[i]>> ELSE <<239, 191, 189>>])

\* lib.rs:198-206, derived BinRead: a 16-bit length, that many bytes, then
\* the stream position is aligned to 4 (align_after).  next is the position
\* the reader is left at.
ReadBntxStr(b, pos, little) ==
    IF ~Avail(b, pos, 2) THEN Fail
    ELSE LET len == UAt(b, pos, 2, little)
         IN  IF ~Avail(b, pos + 2, len) THEN Fail
             ELSE [ok |-> TRUE,
                   val |-> [len |-> len,
                            chars |-> FromUtf8Lossy(Slice(b, pos + 2, len))],
                   next |-> align(pos + 2 + len, 4)]

\* lib.rs:170-171, count = str_count: n records read one after the other
RECURSIVE ReadBntxStrs(_, _, _, _)
ReadBntxStrs(b, pos, n, little) ==
    IF n = 0 THEN [ok |-> TRUE, val |-> <<>>, next |-> pos]
    ELSE LET first == ReadBntxStr(b, pos, little)
         IN  IF ~first.ok THEN Fail
             ELSE LET rest == ReadBntxStrs(b, first.next, n - 1, little)
                  IN  IF ~rest.ok THEN Fail
                      ELSE [ok |-> TRUE, val |-> <<first.val>> \o rest.val,
                            next |-> rest.next]

\* lib.rs:156-172
ReadStrSection(b, pos, little) ==
    IF ~Avail(b, pos, 20) THEN Fail
    ELSE IF Slice(b, pos, 4) # Magic_STR THEN Fail
    ELSE LET str_count == UAt(b, pos + 16, 4, little)
             empty     == ReadBntxStr(b, pos + 20, little)
         IN  IF ~empty.ok THEN Fail
             ELSE LET strings == ReadBntxStrs(b, empty.next, str_count, little)
                  IN  IF ~strings.ok THEN Fail
                      ELSE [ok |-> TRUE,
                            val |-> [unk  |-> UAt(b, pos + 4, 4, little),
                                     unk2 |-> UAt(b, pos + 8, 4, little),
                                     unk3 |-> UAt(b, pos + 12, 4, little),
                                     strings |-> strings.val]]

\* lib.rs:94-101, derived BinRead (the caller checks Avail)
ReadRelocationSection(b, pos, little) ==
    [pointer  |-> UAt(b, pos, 8, little),
     position |-> UAt(b, pos + 8, 4, little),
     size     |-> UAt(b, pos + 12, 4, little),
     index    |-> UAt(b, pos + 16, 4, little),
     count    |-> UAt(b, pos + 20, 4, little)]

\* lib.rs:105-111, derived BinRead (the caller checks Avail)
ReadRelocationEntry(b, pos, little) ==
    [position      |-> UAt(b, pos, 4, little),
     struct_count  |-> UAt(b, pos + 4, 2, little),
     offset_count  |-> UAt(b, pos + 6, 1, little),
     padding_count |-> UAt(b, pos + 7, 1, little)]

\* lib.rs:115-130
ReadRelocationTable(b, pos, little) ==
    IF ~Avail(b, pos, 16) THEN Fail
    ELSE IF Slice(b, pos, 4) # Magic_RLT THEN Fail
    ELSE LET count == UAt(b, pos + 8, 4, little)
         IN  IF count > (Len(b) - (pos + 16)) \div SIZE_OF_RELOC_SECTION THEN Fail
             ELSE LET sections == [i \in 1..count |->
                          ReadRelocationSection(
                              b, pos + 16 + ((i - 1) * SIZE_OF_RELOC_SECTION), little)]
                      epos == pos + 16 + (count * SIZE_OF_RELOC_SECTION)
                      large == \E i \in 1..count : sections[i].count = Huge
                      total == IF large THEN Huge
                               ELSE SumSeq([i \in 1..count |-> sections[i].count])
                  IN  IF total > (Len(b) - epos) \div SIZE_OF_RELOC_ENTRY THEN Fail
                      ELSE [ok |-> TRUE,
                            val |-> [sections |-> sections,
                                     entries  |-> [i \in 1..total |->
                                         ReadRelocationEntry(
                                             b, epos + ((i - 1) * SIZE_OF_RELOC_ENTRY),
                                             little)]]]

\* binread NullString (lib.rs:81-82): the bytes up to the first NUL
ReadNullString(b, pos) ==
    LET nuls == {i \in pos..(Len(b) - 1) : b[i + 1] = 0}
    IN  IF pos < 0 \/ nuls = {} THEN Fail
        ELSE LET end == CHOOSE i \in nuls : \A j \in nuls : i <= j
             IN  [ok |-> TRUE, val |-> FromUtf8Lossy(Slice(b, pos, end - pos))]

\* lib.rs:294-300, derived BinRead of the enum: the first variant is tried
\* (the magic 0x0b06), then Unknown, which takes any 32-bit code
ReadSurfaceFormat(b, pos, little) ==
    LET x == UAt(b, pos, 4, little)
    IN  IF x = 2822 THEN [tag |-> "R8G8B8A8_SRGB"]
        ELSE [tag |-> "Unknown", code |-> x]

\* lib.rs:402-417 with lib.rs:419-421: a pointer to a pointer to len bytes
ReadDoubleIndirectImageData(b, pos, len, little) ==
    LET p1 == UAt(b, pos, 8, little)
    IN  IF ~Avail(b, p1, 8) THEN Fail
        ELSE LET p2 == UAt(b, p1, 8, little)
             IN  IF ~Avail(b, p2, len) THEN Fail
                 ELSE [ok |-> TRUE, val |-> Slice(b, p2, len)]

\* lib.rs:311-341
ReadBrtiSection(b, pos, little) ==
    IF ~Avail(b, pos, 120) THEN Fail
    ELSE IF Slice(b, pos, 4) # Magic_BRTI THEN Fail
    ELSE LET image_size == UAt(b, pos + 80, 4, little)
             name_addr  == ReadBntxStr(b, UAt(b, pos + 96, 8, little), little)
             texture    == ReadDoubleIndirectImageData(b, pos + 112, image_size, little)
         IN  IF ~name_addr.ok \/ ~texture.ok THEN Fail
             ELSE [ok |-> TRUE,
                   val |-> [size             |-> UAt(b, pos + 4, 4, little),
                            size2            |-> UAt(b, pos + 8, 8, little),
                            flags            |-> UAt(b, pos + 16, 1, little),
                            dim              |-> UAt(b, pos + 17, 1, little),
                            tile_mode        |-> UAt(b, pos + 18, 2, little),
                            swizzle          |-> UAt(b, pos + 20, 2, little),
                            mips_count       |-> UAt(b, pos + 22, 2, little),
                            num_multi_sample |-> UAt(b, pos + 24, 4, little),
                            format           |-> ReadSurfaceFormat(b, pos + 28, little),
                            unk2             |-> UAt(b, pos + 32, 4, little),
                            width            |-> UAt(b, pos + 36, 4, little),
                            height           |-> UAt(b, pos + 40, 4, little),
                            depth            |-> UAt(b, pos + 44, 4, little),
                            array_len        |-> UAt(b, pos + 48, 4, little),
                            size_range       |-> UAt(b, pos + 52, 4, little),
                            unk4             |-> [i \in 1..6 |->
                                                     UAt(b, pos + 56 + ((i - 1) * 4), 4, little)],
                            image_size       |-> image_size,
                            align            |-> UAt(b, pos + 84, 4, little),
                            comp_sel         |-> UAt(b, pos + 88, 4, little),
                            ty               |-> UAt(b, pos + 92, 4, little),
                            name_addr        |-> name_addr.val,
                            parent_addr      |-> UAt(b, pos + 104, 8, little),
                            texture          |-> texture.val]]

\* lib.rs:238-254, with the double-indirect pointer of lib.rs:402-417 and
\* the dictionary of lib.rs:274-278 (its magic only)
ReadNxHeader(b, pos, little) ==
    IF ~Avail(b, pos, 40) THEN Fail
    ELSE IF Slice(b, pos, 4) # Magic_NX THEN Fail
    ELSE LET p1   == UAt(b, pos + 8, 8, little)
             dict == UAt(b, pos + 24, 8, little)
         IN  IF ~Avail(b, p1, 8) THEN Fail
             ELSE LET info_ptr == ReadBrtiSection(b, UAt(b, p1, 8, little), little)
                  IN  IF ~info_ptr.ok THEN Fail
                      ELSE IF ~Avail(b, dict, 4) THEN Fail
                      ELSE IF Slice(b, dict, 4) # Magic_DIC THEN Fail
                      ELSE [ok |-> TRUE,
                            val |-> [info_ptr  |-> info_ptr.val,
                                     dict_size |-> UAt(b, pos + 32, 8, little)]]

\* lib.rs:11-17 with lib.rs:25-26: the marker is read big-endian
ReadByteOrder(b, pos) ==
    IF Slice(b, pos, 2) = <<255, 254>> THEN [ok |-> TRUE, val |-> "LittleEndian"]
    ELSE IF Slice(b, pos, 2) = <<254, 255>> THEN [ok |-> TRUE, val |-> "BigEndian"]
    ELSE Fail

\* lib.rs:76-92
ReadHeaderInner(b, pos, little) ==
    LET file_name   == ReadNullString(b, UAt(b, pos + 2, 4, little))
        str_section == ReadStrSection(b, UAt(b, pos + 8, 2, little), little)
        reloc_table == ReadRelocationTable(b, UAt(b, pos + 10, 4, little), little)
    IN  IF ~file_name.ok \/ ~str_section.ok \/ ~reloc_table.ok THEN Fail
        ELSE [ok |-> TRUE,
              val |-> [revision    |-> UAt(b, pos, 2, little),
                       file_name   |-> file_name.val,
                       str_section |-> str_section.val,
                       reloc_table |-> reloc_table.val]]

\* lib.rs:19-30; the version is read in the byte order of the call, which
\* is little-endian (read_le, lib.rs:607)
ReadBntxHeader(b) ==
    IF ~Avail(b, 0, BNTX_HEADER_SIZE) THEN Fail
    ELSE IF Slice(b, 0, 4) # Magic_BNTX THEN Fail
    ELSE LET bom == ReadByteOrder(b, 12)
         IN  IF ~bom.ok THEN Fail
             ELSE LET inner == ReadHeaderInner(b, 14, bom.val = "LittleEndian")
                  IN  IF ~inner.ok THEN Fail
                      ELSE [ok |-> TRUE,
                            val |-> [version |-> <<UAt(b, 8, 2, TRUE), UAt(b, 10, 2, TRUE)>>,
                                     bom     |-> bom.val,
                                     inner   |-> inner.val]]

\* lib.rs:429-435
ReadBntxFile(b) ==
    LET header == ReadBntxHeader(b)
    IN  IF ~header.ok THEN Fail
        ELSE LET nx_header == ReadNxHeader(b, BNTX_HEADER_SIZE,
                                           header.val.bom = "LittleEndian")
             IN  IF ~nx_header.ok THEN Fail
                 ELSE [ok |-> TRUE,
                       val |-> [header |-> header.val, nx_header |-> nx_header.val]]


(***************************************************************************)
(* The Tiling Engine (mod tegra_swizzle, lib.rs:9).  Its source is not     *)
(* part of the sources at hand; it is modelled from its specification: a   *)
(* GOB is 64 bytes wide and 8 rows high, GOBs stack into blocks of         *)
(* 2^size_range GOBs, clamped to the GOB rows the image has, and blocks    *)
(* tile the surface left to right, then top to bottom.                     *)
(***************************************************************************)
GOB_WIDTH_BYTES == 64
GOB_HEIGHT == 8
GOB_SIZE == GOB_WIDTH_BYTES * GOB_HEIGHT
\* the tile mode that denotes the linear layout; every other is block-linear
TILE_MODE_LINEAR == 1

CeilDiv(a, n) == (a + n - 1) \div n

Max(a, b) == IF a > b THEN a ELSE b

RECURSIVE Pow2(_)
Pow2(n) == IF n <= 0 THEN 1 ELSE 2 * Pow2(n - 1)

\* GOBs per block: 2^size_range, clamped to the GOB rows of the image
BlockHeight(height, size_range) ==
    LET rows == Max(1, CeilDiv(height, GOB_HEIGHT))
    IN  IF size_range >= 16 THEN rows ELSE Min(Pow2(size_range), rows)

\* the byte offset, within its GOB, of byte xb of row y
GobOffset(xb, y) ==
    (((xb % 64) \div 32) * 256) + (((y % 8) \div 2) * 64)
      + (((xb % 32) \div 16) * 32) + ((y % 2) * 16) + (xb % 16)

WidthInGobs(width, bpe) == CeilDiv(width * bpe, GOB_WIDTH_BYTES)

\* bytes of one depth slice of the tiled surface
TiledSliceSize(width, height, bpe, size_range) ==
    LET bh == BlockHeight(height, size_range)
    IN  WidthInGobs(width, bpe) * GOB_WIDTH_BYTES * align(height, bh * GOB_HEIGHT)

\* the padded tiled extent
TiledSize(width, height, depth, bpe, size_range) ==
    TiledSliceSize(width, height, bpe, size_range) * depth

\* the tiled offset of byte k of the element at (x, y, z)
TiledAddress(x, y, z, k, width, height, bpe, size_range) ==
    LET bh == BlockHeight(height, size_range)
        xb == (x * bpe) + k
    IN  (z * TiledSliceSize(width, height, bpe, size_range))
          + ((y \div (GOB_HEIGHT * bh)) * WidthInGobs(width, bpe) * bh * GOB_SIZE)
          + ((xb \div GOB_WIDTH_BYTES) * bh * GOB_SIZE)
          + (((y % (GOB_HEIGHT * bh)) \div GOB_HEIGHT) * GOB_SIZE)
          + GobOffset(xb, y)

\* the tiled offset of byte i (0-based) of the row-major linear buffer
TiledIndex(i, width, height, bpe, size_range) ==
    LET e == i \div bpe
    IN  TiledAddress(e % width, (e \div width) % height, e \div (width * height),
                     i % bpe, width, height, bpe, size_range)

\* tegra_swizzle::swizzle: linear to tiled
Swizzle(width, height, depth, bpe, tile_mode, size_range, data) ==
    LET n == width * height * depth * bpe
    IN  IF width = 0 \/ height = 0 \/ depth = 0 THEN Fail
        ELSE IF tile_mode = TILE_MODE_LINEAR THEN [ok |-> TRUE, val |-> data]
        ELSE IF Len(data) < n THEN Fail
        ELSE LET idx == [i \in 1..n |-> TiledIndex(i - 1, width, height, bpe, size_range)]
             IN  [ok |-> TRUE,
                  val |-> [j \in 1..TiledSize(width, height, depth, bpe, size_range) |->
                              LET src == {i \in 1..n : idx[i] = j - 1}
                              IN  IF src = {} THEN 0
                                  ELSE data[CHOOSE i \in src : TRUE]]]

\* tegra_swizzle::deswizzle: tiled to linear
Deswizzle(width, height, depth, bpe, tile_mode, size_range, data) ==
    LET n == width * height * depth * bpe
    IN  IF width = 0 \/ height = 0 \/ depth = 0 THEN Fail
        ELSE IF tile_mode = TILE_MODE_LINEAR THEN [ok |-> TRUE, val |-> data]
        ELSE LET idx == [i \in 1..n |-> TiledIndex(i - 1, width, height, bpe, size_range)]
             IN  IF \E i \in 1..n : idx[i] >= Len(data) THEN Fail
                 ELSE [ok |-> TRUE, val |-> [i \in 1..n |-> data[idx[i] + 1]]]

(***************************************************************************)
(* The boundary operations of BntxFile.                                    *)
(***************************************************************************)
\* lib.rs:438-459.  to_image returns an image, not a Result: a failure of
\* the tiling engine, the slice data[..base_size] of a shorter buffer and
\* the unwrap of a refused from_raw all end the call in a panic.
ToImage(f) ==
    LET info == f.nx_header.info_ptr
        data == Deswizzle(info.width, info.height, info.depth, 4,
                          info.tile_mode, info.size_range, info.texture)
        base_size == info.width * info.height * 4
    IN  IF ~data.ok THEN [res |-> "panic"]
        ELSE IF Len(data.val) < base_size THEN [res |-> "panic"]
        ELSE [res |-> "ok", width |-> info.width, height |-> info.height,
              data |-> SubSeq(data.val, 1, base_size)]

\* lib.rs:514-587; the image is its width, height and row-major RGBA8 bytes.
\* lib.rs:517 is let (height, width) = img.dimensions(), and dimensions()
\* returns (width, height): the first component is bound to height.
FromImage(img, name) ==
    LET dimensions == <<img.width, img.height>>
        height == dimensions[1]
        width  == dimensions[2]
        data   == Swizzle(width, height, 1, 4, 0, 4, img.pixels).val
    IN  [header |->
            [version |-> <<0, 4>>,
             bom     |-> "LittleEndian",
             inner   |-> [revision    |-> 16396,
                          file_name   |-> name,
                          str_section |-> [unk |-> 72, unk2 |-> 72, unk3 |-> 0,
                                           strings |-> <<BntxStrFrom(name)>>],
                          reloc_table |-> [sections |-> <<>>, entries |-> <<>>]]],
         nx_header |->
            [dict_size |-> 88,
             info_ptr  |-> [size |-> 3592, size2 |-> 3592, flags |-> 1, dim |-> 2,
                            tile_mode |-> 0, swizzle |-> 0,
                            mips_count |-> 0,
                            num_multi_sample |-> 1,
                            format |-> [tag |-> "R8G8B8A8_SRGB"],
                            unk2 |-> 32, width |-> width, height |-> height,
                            depth |-> 1, array_len |-> 1, size_range |-> 4,
                            unk4 |-> <<65543, 0, 0, 0, 0, 0>>,
                            image_size |-> 4 * height * width,
                            align |-> 512, comp_sel |-> 84148994, ty |-> 1,
                            name_addr |-> BntxStrFrom(name),
                            parent_addr |-> 32,
                            texture |-> data]]]


(***************************************************************************)
(* The containers the model starts from: values a successful decode can    *)
(* return.  A decoded texture holds image_size bytes, a decoded string     *)
(* holds len bytes, and a decoded relocation table holds as many entries   *)
(* as its sections count.                                                  *)
(***************************************************************************)
\* the k-th string of a pool: n times the k-th letter
PoolString(k, n) == BntxStrFrom([i \in 1..n |-> 96 + k])

PoolOfLens(lens) == [k \in 1..Len(lens) |-> PoolString(k, lens[k])]

\* the lengths of the strings of the pools
PoolLens ==
    UNION {[1..n -> 0..MaxStrLen] : n \in 0..MaxStrings} \cup {<<LongStrLen>>}

\* a name that is no string of a pool: "tex"
OtherName == <<116, 101, 120>>

\* byte i of a texture or pixel buffer derived from seed s
DataByte(s, i) == ((s * 16) + (i * 7)) % 256

DataOf(s, n) == [i \in 1..n |-> DataByte(s, i)]

SectionOf(s, k) ==
    [pointer |-> 4096 + s + k, position |-> 258 + k, size |-> 772 + s,
     index |-> k - 1, count |-> k]

EntryOf(s, k) ==
    [position |-> 513 + k, struct_count |-> 258 + s, offset_count |-> 1 + k,
     padding_count |-> 2 + s]

FormatOf(s) ==
    IF s = 0 THEN [tag |-> "R8G8B8A8_SRGB"] ELSE [tag |-> "Unknown", code |-> 2822 + s]

Decoded(bom, lens, in_pool, nsec, s, width, height, depth, tile_mode, image_size) ==
    LET strings == PoolOfLens(lens)
        name == IF in_pool /\ lens # <<>> THEN strings[1].chars ELSE OtherName
    IN  [header |->
            [version |-> <<s, 4 + s>>,
             bom     |-> bom,
             inner   |-> [revision    |-> 16396 + s,
                          file_name   |-> name,
                          str_section |-> [unk |-> 72 + s, unk2 |-> 328 + s, unk3 |-> s,
                                           strings |-> strings],
                          reloc_table |->
                              [sections |-> [k \in 1..nsec |-> SectionOf(s, k)],
                               entries  |-> [k \in 1..((nsec * (nsec + 1)) \div 2) |->
                                                EntryOf(s, k)]]]],
         nx_header |->
            [dict_size |-> 88 + s,
             info_ptr  |-> [size |-> 3592 + s, size2 |-> 3848 + s, flags |-> 1 + s,
                            dim |-> 2, tile_mode |-> tile_mode, swizzle |-> 258 + s,
                            mips_count |-> 1 + s, num_multi_sample |-> 1,
                            format |-> FormatOf(s),
                            unk2 |-> 32, width |-> width, height |-> height,
                            depth |-> depth, array_len |-> 1 + s, size_range |-> 4,
                            unk4 |-> <<65543, 0, 0, 0, 0, s>>,
                            image_size |-> image_size,
                            align |-> 512, comp_sel |-> 84148994, ty |-> 1,
                            name_addr |-> BntxStrFrom(name),
                            parent_addr |-> 32 + s,
                            texture |-> DataOf(s, image_size)]]]

\* containers that differ in byte order, String Pool and names
PoolVariants ==
    {Decoded(bom, lens, in_pool, 0, 0, 1, 1, 1, 0, 4) :
        bom \in {"LittleEndian", "BigEndian"}, lens \in PoolLens, in_pool \in BOOLEAN}

\* containers that differ in byte order, relocation table and scalar fields
TableVariants ==
    {Decoded(bom, <<1>>, TRUE, nsec, s, 1, 1, 1, 0, 4) :
        bom \in {"LittleEndian", "BigEndian"}, nsec \in 0..MaxSections, s \in 0..MaxSeed}

\* the texel bytes a decoded texture may hold: one too few for its pixels
\* (k = 1), exactly its pixels (k = 2), or the padded tiled extent (k = 3)
TextureSize(width, height, k) ==
    IF k = 1 THEN Max(0, (4 * width * height) - 1)
    ELSE IF k = 2 THEN 4 * width * height
    ELSE TiledSize(width, height, 1, 4, 4)

\* containers that differ in their texture
TextureVariants ==
    {Decoded("LittleEndian", <<1>>, TRUE, 0, 0, width, height, depth, tile_mode,
             TextureSize(width, height, k)) :
        width \in 0..MaxDim, height \in 0..MaxDim, depth \in 0..1,
        tile_mode \in {0, TILE_MODE_LINEAR}, k \in 1..3}

DecodedContainers == PoolVariants \cup TableVariants \cup TextureVariants

\* the images and names given to from_image
Images ==
    {[width |-> w, height |-> h, pixels |-> DataOf(s, 4 * w * h)] :
        w \in 1..MaxDim, h \in 1..MaxDim, s \in 0..MaxSeed}

Names == {<<97>>, <<110, 97, 109, 101>>}

\* pixel-format codes: the known code, its neighbours, its byte-swapped
\* value, zero and the largest code the model's integers hold
FormatCodes ==
    ((2822 - CodeSpan)..(2822 + CodeSpan)) \cup {0, 101384192, Huge - 1}

(***************************************************************************)
(* State.                                                                  *)
(***************************************************************************)
VARIABLES
    file,          \* the BntxFile at hand, or NoFile
    source,        \* how it was built: "decoded", or the image and name of from_image
    written,       \* the bytes write has emitted
    layout,        \* the offset at which each chunk of written was emitted
    wres,          \* the outcome of write
    parsed,        \* the outcome of reading written back
    image,         \* the outcome of to_image
    code,          \* a 32-bit pixel-format code, its byte order and its bytes
    format,        \* the SurfaceFormat read from the bytes of code
    format_bytes   \* the bytes written for format

vars == <<file, source, written, layout, wres, parsed, image, code, format, format_bytes>>

NoFile == [none |-> TRUE]
NotRun == [res |-> "none"]
NoCode == [none |-> TRUE]

fileVars == <<file, source, written, layout, wres, parsed, image>>
formatVars == <<code, format, format_bytes>>

InitFileVars ==
    /\ written = <<>>
    /\ layout = <<>>
    /\ wres = "none"
    /\ parsed = NotRun
    /\ image = NotRun

InitFormatVars ==
    /\ code = NoCode
    /\ format = NoCode
    /\ format_bytes = <<>>

\* a container a decode has returned, or none yet
Init ==
    /\ \/ file \in DecodedContainers /\ source = [kind |-> "decoded"]
       \/ file = NoFile /\ source = [kind |-> "none"]
    /\ InitFileVars
    /\ InitFormatVars

\* BntxFile::from_image, lib.rs:514
DoFromImage ==
    /\ file = NoFile
    /\ \E img \in Images, name \in Names :
          /\ file' = FromImage(img, name)
          /\ source' = [kind |-> "image", img |-> img, name |-> name]
    /\ UNCHANGED <<written, layout, wres, parsed, image, formatVars>>

\* BntxFile::write, lib.rs:461.  When the subtraction of lib.rs:488 has no
\* result in usize the call panics, at the subtraction (overflow checks on)
\* or at the allocation of the wrapped size (overflow checks off), with the
\* bytes before the padding already handed to the writer.
DoWrite ==
    /\ file # NoFile
    /\ wres = "none"
    /\ LET fits   == PaddingSize(file) >= 0
           chunks == IF fits THEN WriteBeforePadding(file) \o WriteAfterPadding(file)
                     ELSE WriteBeforePadding(file)
       IN  /\ written' = Flatten(chunks)
           /\ layout' = [i \in 1..Len(chunks) |->
                            [tag |-> chunks[i].tag,
                             offset |-> SumSeq([j \in 1..(i - 1) |-> Len(chunks[j].bytes)])]]
           /\ wres' \in IF fits THEN {"ok"}
                        ELSE {"panic: subtract with overflow", "panic: capacity overflow"}
    /\ UNCHANGED <<file, source, parsed, image, formatVars>>

\* reading back what write emitted (BntxFile's BinRead, lib.rs:429, 607)
DoRead ==
    /\ wres = "ok"
    /\ parsed = NotRun
    /\ parsed' = [res |-> "done", file |-> ReadBntxFile(written)]
    /\ UNCHANGED <<file, source, written, layout, wres, image, formatVars>>

\* BntxFile::to_image, lib.rs:438
DoToImage ==
    /\ file # NoFile
    /\ image = NotRun
    /\ image' = ToImage(file)
    /\ UNCHANGED <<file, source, written, layout, wres, parsed, formatVars>>

Next == DoFromImage \/ DoWrite \/ DoRead \/ DoToImage

Spec == Init /\ [][Next]_vars

(***************************************************************************)
(* The pixel-format field alone: four bytes of a descriptor holding a code *)
(* in some byte order, read as a SurfaceFormat, and that value written.    *)
(***************************************************************************)
InitFormat ==
    /\ file = NoFile /\ source = [kind |-> "none"]
    /\ InitFileVars
    /\ \E x \in FormatCodes, little \in BOOLEAN :
          code = [x |-> x, little |-> little, bytes |-> ToBytes(x, 4, little)]
    /\ format = NoCode
    /\ format_bytes = <<>>

\* SurfaceFormat's BinRead, lib.rs:294
DoReadFormat ==
    /\ code # NoCode
    /\ format = NoCode
    /\ format' = ReadSurfaceFormat(code.bytes, 0, code.little)
    /\ UNCHANGED <<fileVars, code, format_bytes>>

\* SurfaceFormat's BinWrite, lib.rs:302
DoWriteFormat ==
    /\ format # NoCode
    /\ format_bytes = <<>>
    /\ format_bytes' = WriteSurfaceFormat(format, code.little)
    /\ UNCHANGED <<fileVars, code, format>>

NextFormat == DoReadFormat \/ DoWriteFormat

SpecFormat == InitFormat /\ [][NextFormat]_vars


(***************************************************************************)
(* Properties.                                                             *)
(***************************************************************************)
\* the offset at which the chunk tagged t of written was emitted
LayoutOffset(t) ==
    layout[CHOOSE i \in 1..Len(layout) : layout[i].tag = t].offset

\* a container without its unused parent pointer
NonReserved(f) == [f EXCEPT !.nx_header.info_ptr.parent_addr = 0]

\* C1: for every container c obtained by a successful decode, decoding the
\* bytes encode(c) produced succeeds and yields a container whose every
\* non-reserved field equals the corresponding field of c.
C1_DecodeEncodeRoundTrip ==
    (source.kind = "decoded" /\ parsed # NotRun) =>
        /\ parsed.file.ok
        /\ NonReserved(parsed.file.val) = NonReserved(file)

\* the size align4(2 + len + 1) of the record of a string
RecordSize(s) == align(2 + Len(s.chars) + 1, 4)

\* the offset at which the k-th record of the pool of file was emitted
RecordOffset(k) ==
    LET strings == file.header.inner.str_section.strings
    IN  LayoutOffset("strings")
          + SumSeq([j \in 1..(k - 1) |->
                       Len(WriteBntxStr(strings[j], WriteOptionsLittle(file)))])

\* C2: String Pool round trip: writing the String Pool and reading it back
\* yields the identical ordered sequence of strings, the empty placeholder
\* is emitted as exactly 4 bytes before the real entries, and each record
\* occupies exactly align4(2 + len + 1) bytes both as written and as
\* consumed by the reader.
C2_StringPoolRoundTrip ==
    wres = "ok" =>
        LET little  == WriteOptionsLittle(file)
            strings == file.header.inner.str_section.strings
            back    == ReadStrSection(written, LayoutOffset("_STR"), little)
        IN  /\ back.ok
            /\ back.val.strings = strings
            /\ LayoutOffset("strings") - LayoutOffset("empty") = 4
            /\ LayoutOffset("_DIC") - LayoutOffset("strings")
                 = SumSeq([k \in 1..Len(strings) |-> RecordSize(strings[k])])
            /\ \A k \in 1..Len(strings) :
                  LET rec == ReadBntxStr(written, RecordOffset(k), little)
                  IN  /\ Len(WriteBntxStr(strings[k], little)) = RecordSize(strings[k])
                      /\ rec.ok
                      /\ rec.next - RecordOffset(k) = RecordSize(strings[k])

C4_OversizedPoolFailsCleanly ==
    (/\ wres # "none"
     /\ START_OF_STR_SECTION + StrSectionGetSize(file.header.inner.str_section)
          + DictGetSize + SIZE_OF_BRTI + 512 + 8 > BRTD_SECTION_START) =>
        /\ wres = "error"
        /\ written = <<>>

\* C5: the container built by the from-image constructor has a mip level
\* count of 1 and an array-layer count of 1 in its texture descriptor.
C5_FromImageCountsAreOne ==
    source.kind = "image" =>
        /\ file.nx_header.info_ptr.mips_count = 1
        /\ file.nx_header.info_ptr.array_len = 1

\* C6: for every 32-bit pixel-format code x, decoding the format field never
\* fails: the code 0x0b06 maps to the named variant and every other code to
\* the Unknown variant carrying x; and writing the decoded format emits
\* exactly the original bytes of x, so the code round-trips unchanged.
C6_FormatCodeRoundTrip ==
    /\ format # NoCode =>
          format = IF code.x = 2822 THEN [tag |-> "R8G8B8A8_SRGB"]
                   ELSE [tag |-> "Unknown", code |-> code.x]
    /\ format_bytes # <<>> => format_bytes = code.bytes

\* C6's case: an unrecognized code, big-endian, was decoded and written
C6_Witness ==
    /\ code # NoCode
    /\ code.x # 2822
    /\ ~code.little
    /\ format # NoCode
    /\ format.tag = "Unknown"
    /\ format_bytes # <<>>

\* C7: to_pixels on a container whose deswizzled buffer is shorter than
\* width*height*4 bytes, or whose width or height is zero, fails with a
\* dimension-mismatch error value (it does not panic); and whenever it
\* succeeds the pixel buffer has exactly width*height*4 bytes and comes with
\* the descriptor's width and height.
C7_ToImageDimensionError ==
    image # NotRun =>
        LET info == file.nx_header.info_ptr
            data == Deswizzle(info.width, info.height, info.depth, 4,
                              info.tile_mode, info.size_range, info.texture)
            base_size == info.width * info.height * 4
        IN  /\ (\/ info.width = 0
                \/ info.height = 0
                \/ (data.ok /\ Len(data.val) < base_size))
                  => image.res = "dimension mismatch"
            /\ image.res = "ok" =>
                  /\ Len(image.data) = base_size
                  /\ image.width = info.width
                  /\ image.height = info.height

\* C8: for every RGBA8 pixel buffer P of width W and height H and every
\* name, the container built by from_pixels stores W in the descriptor's
\* width field and H in its height field, and to_pixels of that container
\* returns width W, height H and exactly the bytes of P.
C8_FromImageKeepsDimensions ==
    source.kind = "image" =>
        /\ file.nx_header.info_ptr.width = source.img.width
        /\ file.nx_header.info_ptr.height = source.img.height
        /\ image # NotRun =>
              /\ image.res = "ok"
              /\ image.width = source.img.width
              /\ image.height = source.img.height
              /\ image.data = source.img.pixels

\* C9: for every container built by from_pixels, the descriptor's declared
\* texel-data byte size (image_size) equals the length of the tiled texel
\* buffer the descriptor owns and encode emits after the BRTD header, so
\* that decoding the encoded file recovers the whole tiled buffer.
C9_ImageSizeIsTiledLength ==
    source.kind = "image" =>
        LET info == file.nx_header.info_ptr
        IN  /\ info.image_size = Len(info.texture)
            /\ wres = "ok" =>
                  LayoutOffset("_RLT") - LayoutOffset("texture") = info.image_size
            /\ parsed # NotRun =>
                  /\ parsed.file.ok
                  /\ parsed.file.val.nx_header.info_ptr.texture = info.texture

\* C10: encode emits every multi-byte field that follows the endianness
\* marker in the byte order named by the marker it emits, so a decoder that
\* selects the byte order from the emitted marker reads back the same field
\* values.
C10_FieldsFollowMarker ==
    wres = "ok" =>
        LET marker == ReadByteOrder(written, 12)
            le     == marker.val = "LittleEndian"
            brti   == LayoutOffset("BRTI")
            info   == file.nx_header.info_ptr
        IN  /\ marker.ok
            /\ marker.val = file.header.bom
            /\ UAt(written, 14, 2, le) = file.header.inner.revision
            /\ UAt(written, 22, 2, le) = LayoutOffset("_STR")
            /\ UAt(written, 28, 4, le) = Len(written)
            /\ UAt(written, BNTX_HEADER_SIZE + 32, 8, le) = file.nx_header.dict_size
            /\ UAt(written, brti + 36, 4, le) = info.width
            /\ UAt(written, brti + 40, 4, le) = info.height
            /\ UAt(written, brti + 80, 4, le) = info.image_size

=============================================================================
